---- MODULE Spec2Model ----
(***************************************************************************)
(* Decision engine (auditor.py, grants_governance.py, governance_module.py)*)
(* and token gateway (token_gateway.py) of the regulated AI control plane. *)
(*                                                                         *)
(* Amounts are integers (minor units), model_confidence is in hundredths,  *)
(* dates are day ordinals and datetimes are seconds.  SHA-256 and          *)
(* HMAC-SHA256 are idealised as collision-free: a digest is the tagged     *)
(* preimage it was computed from.                                          *)
(***************************************************************************)
EXTENDS Integers, Sequences, FiniteSets, TLC

VARIABLES
    today,              \* wall clock: the value date.today() returns
    intent,             \* IntentObject passed to evaluate / run
    snapshot,           \* GrantSnapshot passed to evaluate / run
    policy_version_id,  \* policy_version_id argument
    now,                \* the optional `now` argument (None when omitted)
    last,               \* the most recent call of the decision engine
    prev,               \* the call before it
    clock,              \* wall clock: datetime.now(timezone.utc), in seconds
    claims,             \* the TokenClaims object built for a token
    issued,             \* what issue_token was given and what it returned
    presented,          \* the token string handed to validate_token
    outcome,            \* the most recent call of validate_token on `presented`
    accepted,           \* how many such calls returned claims
    intent_payload,     \* the raw payload handed to validate_intent
    validated           \* what validate_intent did with it

decisionVars == <<today, intent, snapshot, policy_version_id, now, last, prev>>

tokenVars == <<clock, claims, issued, presented, outcome, accepted>>

intentVars == <<intent_payload, validated>>

vars == <<today, intent, snapshot, policy_version_id, now, last, prev,
          clock, claims, issued, presented, outcome, accepted,
          intent_payload, validated>>

\* Optional[date]: None, or a date
None == [some |-> FALSE, val |-> 0]

Some(d) == [some |-> TRUE, val |-> d]

----------------------------------------------------------------------------
(* Bounds of the model *)

MaxDay == 2

Days == 0..MaxDay

\* dates a caller may pass as `now`: one day before the first wall-clock date too
NowDates == -1..MaxDay

----------------------------------------------------------------------------
(* Program constants *)

DECISION_APPROVE == "APPROVE"
DECISION_REJECT == "REJECT"
DECISION_REQUIRE_REVIEW == "REQUIRE_REVIEW"

\* the literal 0.85 of the confidence routing rule, in hundredths
ConfidenceFloor == 85

----------------------------------------------------------------------------
(* Input domains *)

ObjectCodes == {"equipment", "TRAVEL"}

Amounts == {2, 3, 4, 5}

Intents ==
    [transaction_id : {"txn_001"},
     grant_id : {"GRANT-2026-001"},
     amount : Amounts,
     object_code : ObjectCodes,
     expense_date : {-1, 0, 2},
     evidence_refs : {<<>>, <<"file_01">>},
     model_confidence : {84, 85},
     risk_class : {"low", "medium", "high"}]

\* malformed snapshot data: a list of allowed codes with None in it
\* ("<None>" stands for the None element)
MalformedSnapshot ==
    [snapshot_id |-> "snap_2026_02_20",
     snapshot_hash |-> "sha256:snapshot123",
     as_of_date |-> 0,
     grant_start_date |-> 0,
     grant_end_date |-> 1,
     budget_remaining |-> 4,
     allowed_object_codes |-> {"EQUIPMENT", "<None>"},
     high_dollar_threshold |-> 3,
     max_snapshot_age_days |-> 1]

Snapshots ==
    [snapshot_id : {"snap_2026_02_20"},
     snapshot_hash : {"sha256:snapshot123"},
     as_of_date : {0},
     grant_start_date : {0},
     grant_end_date : {1},
     budget_remaining : {4},
     allowed_object_codes : {{"EQUIPMENT", "Supplies"}},
     high_dollar_threshold : {3},
     max_snapshot_age_days : {-2, 1}]
        \cup {MalformedSnapshot}

PolicyVersions == {"policy_v1"}

----------------------------------------------------------------------------
(* str.upper() on the object codes in use *)

Upper(s) ==
    CASE s = "equipment" -> "EQUIPMENT"
      [] s = "Equipment" -> "EQUIPMENT"
      [] s = "Supplies" -> "SUPPLIES"
      [] s = "travel" -> "TRAVEL"
      [] OTHER -> s

\* a formatted string: the template and the values formatted into it
Text(fmt, nums, text) == [fmt |-> fmt, nums |-> nums, text |-> text]

\* date.isoformat()
DateIsoformat(d) == Text("{isoformat}", <<d>>, "")

\* str(x) of a number
Str(x) == Text("{str}", <<x>>, "")

\* a string used as it is
Literal(s) == Text("{}", <<>>, s)

RuleFinding(rule_id, severity, message, actual_value, expected_condition) ==
    [rule_id |-> rule_id,
     severity |-> severity,
     message |-> message,
     actual_value |-> actual_value,
     expected_condition |-> expected_condition]

\* RuleFinding.to_dict
to_dict(f) ==
    [rule_id |-> f.rule_id,
     severity |-> f.severity,
     message |-> f.message,
     actual_value |-> f.actual_value,
     expected_condition |-> f.expected_condition]

----------------------------------------------------------------------------
(* GrantsGovernanceModule.evaluate, rule by rule *)

\* evaluation_date = now or date.today()
EvaluationDate(nowArg, wallDate) ==
    IF nowArg.some THEN nowArg.val ELSE wallDate

RulePeriod001(i, s) ==
    IF ~(s.grant_start_date <= i.expense_date /\ i.expense_date <= s.grant_end_date)
    THEN <<RuleFinding("R-PERIOD-001", "high",
                       "Expense date falls outside active grant period.",
                       DateIsoformat(i.expense_date),
                       Text("{isoformat} <= expense_date <= {isoformat}",
                            <<s.grant_start_date, s.grant_end_date>>, ""))>>
    ELSE <<>>

RuleBudget002(i, s) ==
    IF i.amount > s.budget_remaining
    THEN <<RuleFinding("R-BUDGET-002", "high",
                       "Requested amount exceeds remaining grant budget.",
                       Str(i.amount),
                       Text("amount <= {str}", <<s.budget_remaining>>, ""))>>
    ELSE <<>>

RuleAllow003(i, s) ==
    LET allowed_codes == {Upper(code) : code \in s.allowed_object_codes}
    IN  IF Upper(i.object_code) \notin allowed_codes
        THEN <<RuleFinding("R-ALLOW-003", "high",
                           "Object code is not allowed for this grant policy.",
                           Literal(i.object_code),
                           Literal("object_code in allowed_object_codes"))>>
        ELSE <<>>

RuleDoc004(i) ==
    IF Len(i.evidence_refs) = 0
    THEN <<RuleFinding("R-DOC-004", "medium",
                       "Supporting evidence is missing.",
                       Literal("[]"),
                       Literal("len(evidence_refs) > 0"))>>
    ELSE <<>>

\* R-SNAP-008 firing already at the maximum age
RuleSnap008_AtMaxAge(evaluation_date, s) ==
    LET snapshot_age_days == evaluation_date - s.as_of_date
    IN  IF snapshot_age_days >= s.max_snapshot_age_days
        THEN <<RuleFinding("R-SNAP-008", "high",
                           "Snapshot age exceeds freshness threshold.",
                           Str(snapshot_age_days),
                           Text("snapshot_age_days <= {str}",
                                <<s.max_snapshot_age_days>>, ""))>>
        ELSE <<>>

RuleSnap008(evaluation_date, s) ==
    LET snapshot_age_days == evaluation_date - s.as_of_date
    IN  IF snapshot_age_days > s.max_snapshot_age_days
        THEN <<RuleFinding("R-SNAP-008", "high",
                           "Snapshot age exceeds freshness threshold.",
                           Str(snapshot_age_days),
                           Text("snapshot_age_days <= {str}",
                                <<s.max_snapshot_age_days>>, ""))>>
        ELSE <<>>

\* the documentation rule run before the others
Findings_DocFirst(i, s, evaluation_date) ==
    RuleDoc004(i) \o RulePeriod001(i, s) \o RuleBudget002(i, s)
        \o RuleAllow003(i, s) \o RuleSnap008(evaluation_date, s)

\* the findings list after the five rules have run, in the order of the code
Findings(i, s, evaluation_date) ==
    RulePeriod001(i, s) \o RuleBudget002(i, s) \o RuleAllow003(i, s)
        \o RuleDoc004(i) \o RuleSnap008(evaluation_date, s)

\* the threshold rule with a strict comparison
RoutingFlag_StrictThreshold(i, s) ==
    \/ i.amount > s.high_dollar_threshold
    \/ i.risk_class \in {"medium", "high"}
    \/ i.model_confidence < ConfidenceFloor

\* requires_review after R-THRESH-005 and the risk / confidence routing
RoutingFlag(i, s) ==
    \/ i.amount >= s.high_dollar_threshold
    \/ i.risk_class \in {"medium", "high"}
    \/ i.model_confidence < ConfidenceFloor

\* any(v.severity == "high" for v in findings)
AnyHigh(findings) == \E k \in 1..Len(findings) : findings[k].severity = "high"

\* a rejection that leaves the routing flag as it was
Verdict_KeepsReview(findings, routed) ==
    IF AnyHigh(findings)
    THEN [decision |-> DECISION_REJECT, requires_review |-> routed]
    ELSE IF routed
         THEN [decision |-> DECISION_REQUIRE_REVIEW, requires_review |-> TRUE]
         ELSE [decision |-> DECISION_APPROVE, requires_review |-> FALSE]

\* the (decision, requires_review) pair of lines 202-207
Verdict(findings, routed) ==
    IF AnyHigh(findings)
    THEN [decision |-> DECISION_REJECT, requires_review |-> FALSE]
    ELSE IF routed
         THEN [decision |-> DECISION_REQUIRE_REVIEW, requires_review |-> TRUE]
         ELSE [decision |-> DECISION_APPROVE, requires_review |-> FALSE]

\* hash material built from the routing flag before the verdict forced it
HashMaterial_Unforced(v, findings, i, s, pv) ==
    [decision |-> v.decision,
     violations |-> [k \in 1..Len(findings) |-> to_dict(findings[k])],
     requires_review |-> RoutingFlag(i, s),
     policy_version_id |-> pv,
     snapshot_id |-> s.snapshot_id,
     snapshot_hash |-> s.snapshot_hash,
     transaction_id |-> i.transaction_id]

\* decision_hash_material of evaluate
HashMaterial(v, findings, i, s, pv) ==
    [decision |-> v.decision,
     violations |-> [k \in 1..Len(findings) |-> to_dict(findings[k])],
     requires_review |-> v.requires_review,
     policy_version_id |-> pv,
     snapshot_id |-> s.snapshot_id,
     snapshot_hash |-> s.snapshot_hash,
     transaction_id |-> i.transaction_id]

\* GrantsGovernanceModule.evaluate called when date.today() is wallDate
Evaluate(i, s, pv, nowArg, wallDate) ==
    LET evaluation_date == EvaluationDate(nowArg, wallDate)
        findings == Findings(i, s, evaluation_date)
        v == Verdict(findings, RoutingFlag(i, s))
    IN  [decision |-> v.decision,
         findings |-> findings,
         requires_review |-> v.requires_review,
         policy_version_id |-> pv,
         state_snapshot_id |-> s.snapshot_id,
         decision_hash_material |-> HashMaterial(v, findings, i, s, pv)]

\* code.upper() raises AttributeError for an element that is no string
EvaluateRaises(s) == "<None>" \in s.allowed_object_codes

AttributeError == "AttributeError: 'NoneType' object has no attribute 'upper'"

\* a call of evaluate: the error it raises, or the DecisionResult it returns
ModuleEvaluate(i, s, pv, nowArg, wallDate) ==
    IF EvaluateRaises(s)
    THEN [status |-> "raised", error |-> AttributeError]
    ELSE [status |-> "returned", result |-> Evaluate(i, s, pv, nowArg, wallDate)]

\* scopes for every verdict that is not a rejection
token_scope_for_NotReject(result) ==
    IF result.decision # DECISION_REJECT THEN <<"post_grant_expense">> ELSE <<>>

\* GrantsGovernanceModule.token_scope_for
token_scope_for(result) ==
    IF result.decision = DECISION_APPROVE THEN <<"post_grant_expense">> ELSE <<>>

----------------------------------------------------------------------------
(* grants_governance.GrantsGovernanceModule, the pack as a module of its own *)

gg_DECISION_APPROVE == "APPROVE"

gg_DECISION_REJECT == "REJECT"

gg_DECISION_REQUIRE_REVIEW == "REQUIRE_REVIEW"

\* the findings with the budget rule firing already at the remaining budget
gg_findings_BudgetAtLimit(i, s, evaluation_date) ==
    LET snapshot_age_days == evaluation_date - s.as_of_date
        allowed_codes == {Upper(code) : code \in s.allowed_object_codes}
    IN  (IF ~(s.grant_start_date <= i.expense_date /\ i.expense_date <= s.grant_end_date)
         THEN <<RuleFinding("R-PERIOD-001", "high",
                            "Expense date falls outside active grant period.",
                            DateIsoformat(i.expense_date),
                            Text("{isoformat} <= expense_date <= {isoformat}",
                                 <<s.grant_start_date, s.grant_end_date>>, ""))>>
         ELSE <<>>)
        \o (IF i.amount >= s.budget_remaining
            THEN <<RuleFinding("R-BUDGET-002", "high",
                               "Requested amount exceeds remaining grant budget.",
                               Str(i.amount),
                               Text("amount <= {str}", <<s.budget_remaining>>, ""))>>
            ELSE <<>>)
        \o (IF Upper(i.object_code) \notin allowed_codes
            THEN <<RuleFinding("R-ALLOW-003", "high",
                               "Object code is not allowed for this grant policy.",
                               Literal(i.object_code),
                               Literal("object_code in allowed_object_codes"))>>
            ELSE <<>>)
        \o (IF Len(i.evidence_refs) = 0
            THEN <<RuleFinding("R-DOC-004", "medium",
                               "Supporting evidence is missing.",
                               Literal("[]"),
                               Literal("len(evidence_refs) > 0"))>>
            ELSE <<>>)
        \o (IF snapshot_age_days > s.max_snapshot_age_days
            THEN <<RuleFinding("R-SNAP-008", "high",
                               "Snapshot age exceeds freshness threshold.",
                               Str(snapshot_age_days),
                               Text("snapshot_age_days <= {str}",
                                    <<s.max_snapshot_age_days>>, ""))>>
            ELSE <<>>)

\* the findings list of grants_governance's evaluate after its five rules
gg_findings(i, s, evaluation_date) ==
    LET snapshot_age_days == evaluation_date - s.as_of_date
        allowed_codes == {Upper(code) : code \in s.allowed_object_codes}
    IN  (IF ~(s.grant_start_date <= i.expense_date /\ i.expense_date <= s.grant_end_date)
         THEN <<RuleFinding("R-PERIOD-001", "high",
                            "Expense date falls outside active grant period.",
                            DateIsoformat(i.expense_date),
                            Text("{isoformat} <= expense_date <= {isoformat}",
                                 <<s.grant_start_date, s.grant_end_date>>, ""))>>
         ELSE <<>>)
        \o (IF i.amount > s.budget_remaining
            THEN <<RuleFinding("R-BUDGET-002", "high",
                               "Requested amount exceeds remaining grant budget.",
                               Str(i.amount),
                               Text("amount <= {str}", <<s.budget_remaining>>, ""))>>
            ELSE <<>>)
        \o (IF Upper(i.object_code) \notin allowed_codes
            THEN <<RuleFinding("R-ALLOW-003", "high",
                               "Object code is not allowed for this grant policy.",
                               Literal(i.object_code),
                               Literal("object_code in allowed_object_codes"))>>
            ELSE <<>>)
        \o (IF Len(i.evidence_refs) = 0
            THEN <<RuleFinding("R-DOC-004", "medium",
                               "Supporting evidence is missing.",
                               Literal("[]"),
                               Literal("len(evidence_refs) > 0"))>>
            ELSE <<>>)
        \o (IF snapshot_age_days > s.max_snapshot_age_days
            THEN <<RuleFinding("R-SNAP-008", "high",
                               "Snapshot age exceeds freshness threshold.",
                               Str(snapshot_age_days),
                               Text("snapshot_age_days <= {str}",
                                    <<s.max_snapshot_age_days>>, ""))>>
            ELSE <<>>)

\* grants_governance.GrantsGovernanceModule.evaluate called when
\* date.today() is wallDate: the error it raises or the DecisionResult
gg_evaluate(i, s, pv, nowArg, wallDate) ==
    LET evaluation_date == IF nowArg.some THEN nowArg.val ELSE wallDate
        findings == gg_findings(i, s, evaluation_date)
        routed == \/ i.amount >= s.high_dollar_threshold
                  \/ i.risk_class \in {"medium", "high"}
                  \/ i.model_confidence < ConfidenceFloor
        high == \E k \in 1..Len(findings) : findings[k].severity = "high"
        decision == IF high THEN gg_DECISION_REJECT
                    ELSE IF routed THEN gg_DECISION_REQUIRE_REVIEW
                    ELSE gg_DECISION_APPROVE
        requires_review == ~high /\ routed
    IN  IF \E code \in s.allowed_object_codes : code = "<None>"
        THEN [status |-> "raised", error |-> AttributeError]
        ELSE [status |-> "returned",
              result |->
                [decision |-> decision,
                 findings |-> findings,
                 requires_review |-> requires_review,
                 policy_version_id |-> pv,
                 state_snapshot_id |-> s.snapshot_id,
                 decision_hash_material |->
                    [decision |-> decision,
                     violations |-> [k \in 1..Len(findings) |-> to_dict(findings[k])],
                     requires_review |-> requires_review,
                     policy_version_id |-> pv,
                     snapshot_id |-> s.snapshot_id,
                     snapshot_hash |-> s.snapshot_hash,
                     transaction_id |-> i.transaction_id]]]

\* grants_governance.GrantsGovernanceModule.token_scope_for
gg_token_scope_for(result) ==
    IF result.decision = gg_DECISION_APPROVE THEN <<"post_grant_expense">> ELSE <<>>

\* the two shipped packs
Packs == {"auditor", "grants_governance"}

\* evaluate of the chosen pack
PackEvaluate(pack, i, s, pv, nowArg, wallDate) ==
    IF pack = "auditor"
    THEN ModuleEvaluate(i, s, pv, nowArg, wallDate)
    ELSE gg_evaluate(i, s, pv, nowArg, wallDate)

----------------------------------------------------------------------------
(* Canonical hasher *)

\* every mapping key of the hash material, in lexicographic order
KeyOrder ==
    <<"actual_value", "decision", "expected_condition", "message",
      "policy_version_id", "requires_review", "rule_id", "severity",
      "snapshot_hash", "snapshot_id", "transaction_id", "violations">>

\* json.dumps(m, sort_keys=True, separators=(",", ":")) of a flat mapping:
\* the key/value pairs in lexicographic key order
DumpsFlat(m) ==
    LET keys == SelectSeq(KeyOrder, LAMBDA k : k \in DOMAIN m)
    IN  [n \in 1..Len(keys) |-> <<keys[n], m[keys[n]]>>]

\* json.dumps of the hash material: sort_keys applies at every nesting level
JsonDumps(material) ==
    DumpsFlat([material EXCEPT
        !.violations = [k \in 1..Len(material.violations) |->
                            DumpsFlat(material.violations[k])]])

\* hashlib.sha256(raw).hexdigest(), collision-free
Sha256Hex(raw) == [alg |-> "sha256", preimage |-> raw]

\* the digest taken over the material without the transaction id
_compute_decision_hash_NoTransaction(material) ==
    Sha256Hex(JsonDumps([material EXCEPT !.transaction_id = ""]))

_compute_decision_hash_from_material(material) == Sha256Hex(JsonDumps(material))

\* datetime.now(timezone.utc).isoformat() when the wall clock shows wallDate
UtcNowIsoformat(wallDate) == Text("{datetime.isoformat}", <<wallDate>>, "")

\* _rule_finding_to_violation
_rule_finding_to_violation(f) ==
    [rule_id |-> f.rule_id,
     severity |-> f.severity,
     message |-> f.message,
     actual_value |-> f.actual_value,
     expected_condition |-> f.expected_condition]

\* a digest that also covers the evaluation timestamp
AuditorDecision_HashesTimestamp(result, wallDate) ==
    [decision |-> result.decision,
     violations |-> [k \in 1..Len(result.findings) |->
                        _rule_finding_to_violation(result.findings[k])],
     requires_review |-> result.requires_review,
     decision_hash |-> Sha256Hex(<<JsonDumps(result.decision_hash_material),
                                   UtcNowIsoformat(wallDate)>>),
     evaluated_at |-> UtcNowIsoformat(wallDate),
     policy_version_id |-> result.policy_version_id,
     state_snapshot_id |-> result.state_snapshot_id]

\* the AuditorDecision that Auditor.run builds from the module's result
AuditorDecision(result, wallDate) ==
    [decision |-> result.decision,
     violations |-> [k \in 1..Len(result.findings) |->
                        _rule_finding_to_violation(result.findings[k])],
     requires_review |-> result.requires_review,
     decision_hash |-> _compute_decision_hash_from_material(result.decision_hash_material),
     evaluated_at |-> UtcNowIsoformat(wallDate),
     policy_version_id |-> result.policy_version_id,
     state_snapshot_id |-> result.state_snapshot_id]

\* Auditor.run wrapping an error of the module into an error of its own
AuditorRun_WrapsError(evaluated, wallDate) ==
    IF evaluated.status = "raised"
    THEN [status |-> "raised", error |-> "AuditorError"]
    ELSE [status |-> "returned",
          decision |-> AuditorDecision(evaluated.result, wallDate)]

\* Auditor.run after the call of self.module.evaluate: there is no try
\* around that call, so what the module raises leaves run as it is
AuditorRun(evaluated, wallDate) ==
    IF evaluated.status = "raised"
    THEN [status |-> "raised", error |-> evaluated.error]
    ELSE [status |-> "returned",
          decision |-> AuditorDecision(evaluated.result, wallDate)]

\* evaluate_grant_intent: run of a fresh Auditor with a fresh grants module
evaluate_grant_intent(i, s, pv, nowArg, wallDate) ==
    AuditorRun(ModuleEvaluate(i, s, pv, nowArg, wallDate), wallDate)

\* the two entries to a decision: Auditor(GrantsGovernanceModule()).run and
\* the function evaluate_grant_intent
RunEntries == {"Auditor.run", "evaluate_grant_intent"}

\* the outcome of asking for a decision through the entry
EntryRun(entry, i, s, pv, nowArg, wallDate) ==
    IF entry = "Auditor.run"
    THEN AuditorRun(ModuleEvaluate(i, s, pv, nowArg, wallDate), wallDate)
    ELSE evaluate_grant_intent(i, s, pv, nowArg, wallDate)

\* what a call leaves behind: the error, or the result and the decision
CallRecord(op, evaluated, ran, wallDate) ==
    IF ran.status = "raised"
    THEN [op |-> "raised", by |-> op, day |-> wallDate, error |-> ran.error]
    ELSE [op |-> op,
          day |-> wallDate,
          result |-> evaluated.result,
          decision |-> ran.decision]

----------------------------------------------------------------------------
(* The decision engine as a state machine: the arguments are fixed by Init,
   the calls happen at different wall-clock dates *)

NoCall == [op |-> "none"]

\* no TokenClaims object yet
NoClaims == [none |-> TRUE]

\* issue_token has not been called yet
NotIssued == [status |-> "none"]

\* validate_token has not been called yet
NoOutcome == [status |-> "none"]

\* no payload has been handed to validate_intent
NoPayload == [none |-> TRUE]

\* validate_intent has not been called yet
NotValidated == [status |-> "none"]

Init ==
    /\ today = 0
    /\ intent \in Intents
    /\ snapshot \in Snapshots
    /\ policy_version_id \in PolicyVersions
    /\ now \in {None} \cup {Some(d) : d \in NowDates}
    /\ last = NoCall
    /\ prev = NoCall
    /\ clock = 0
    /\ claims = NoClaims
    /\ issued = NotIssued
    /\ presented = <<>>
    /\ outcome = NoOutcome
    /\ accepted = 0
    /\ intent_payload = NoPayload
    /\ validated = NotValidated

\* the wall clock moves on to the next day
AdvanceDay ==
    /\ today < MaxDay
    /\ today' = today + 1
    /\ UNCHANGED <<intent, snapshot, policy_version_id, now, last, prev>>
    /\ UNCHANGED tokenVars
    /\ UNCHANGED intentVars

\* a direct call of evaluate on a module object of either pack
CallEvaluate ==
    /\ \E pack \in Packs :
       LET evaluated == PackEvaluate(pack, intent, snapshot, policy_version_id, now, today)
       IN  last' = IF evaluated.status = "raised"
                   THEN [op |-> "raised", by |-> "evaluate", day |-> today,
                         error |-> evaluated.error]
                   ELSE [op |-> "evaluate", day |-> today, result |-> evaluated.result]
    /\ prev' = last
    /\ UNCHANGED <<today, intent, snapshot, policy_version_id, now>>
    /\ UNCHANGED tokenVars
    /\ UNCHANGED intentVars

\* a decision asked for through either entry
CallRun ==
    /\ \E entry \in RunEntries :
       LET evaluated == ModuleEvaluate(intent, snapshot, policy_version_id, now, today)
           ran == EntryRun(entry, intent, snapshot, policy_version_id, now, today)
       IN  last' = CallRecord("run", evaluated, ran, today)
    /\ prev' = last
    /\ UNCHANGED <<today, intent, snapshot, policy_version_id, now>>
    /\ UNCHANGED tokenVars
    /\ UNCHANGED intentVars

Next == AdvanceDay \/ CallEvaluate \/ CallRun

Spec == Init /\ [][Next]_vars

----------------------------------------------------------------------------
(* Token gateway: bytes, base64url and HMAC *)

\* Characters of a token string: 0..63 are the base64url alphabet
\* (A-Z a-z 0-9 - _ in that order), the others are named here.
DOT == 64

PAD == 65

JUNK == 66

ByteAt(raw, n) == IF n <= Len(raw) THEN raw[n] ELSE 0

\* base64.urlsafe_b64encode(raw).decode("ascii").rstrip("="): every three
\* bytes give four characters, one or two bytes left over give two or three
_b64url_encode(raw) ==
    LET rest == Len(raw) % 3
        count == (Len(raw) \div 3) * 4 + (IF rest = 0 THEN 0 ELSE rest + 1)
    IN  [k \in 1..count |->
            LET g == (k - 1) \div 4
                b1 == ByteAt(raw, 3 * g + 1)
                b2 == ByteAt(raw, 3 * g + 2)
                b3 == ByteAt(raw, 3 * g + 3)
            IN  CASE (k - 1) % 4 = 0 -> b1 \div 4
                  [] (k - 1) % 4 = 1 -> (b1 % 4) * 16 + b2 \div 16
                  [] (k - 1) % 4 = 2 -> (b2 % 16) * 4 + b3 \div 64
                  [] OTHER -> b3 % 64]

DecodeError == [ok |-> FALSE, bytes |-> <<>>]

IsData(ch) == ch <= 63

\* the bytes that a run of alphabet characters stands for: four characters
\* give three bytes, two or three characters left over give one or two
BytesOfData(data) ==
    LET rest == Len(data) % 4
        count == (Len(data) \div 4) * 3 + (IF rest >= 2 THEN rest - 1 ELSE 0)
    IN  [k \in 1..count |->
            LET g == (k - 1) \div 3
                c1 == data[4 * g + 1]
                c2 == data[4 * g + 2]
                c3 == IF 4 * g + 3 <= Len(data) THEN data[4 * g + 3] ELSE 0
                c4 == IF 4 * g + 4 <= Len(data) THEN data[4 * g + 4] ELSE 0
            IN  CASE (k - 1) % 3 = 0 -> c1 * 4 + c2 \div 16
                  [] (k - 1) % 3 = 1 -> (c2 % 16) * 16 + c3 \div 4
                  [] OTHER -> (c3 % 4) * 64 + c4]

\* binascii.a2b_base64 in its default, non-strict mode.  Characters that
\* are neither in the alphabet nor "=" are skipped.  With q alphabet
\* characters of an unfinished quad read, q >= 2, the (4 - q)-th "=" since
\* the last alphabet character ends the input and what follows is ignored;
\* an "=" at q < 2 is skipped.  Input that ends inside a quad is an error.

a2b_base64(s) ==
    LET kept == SelectSeq(s, LAMBDA ch : IsData(ch) \/ ch = PAD)
        pads == {n \in 1..Len(kept) : kept[n] = PAD}
        Quad(n) == (n - Cardinality({m \in pads : m <= n})) % 4
        ends == {n \in pads : \/ Quad(n) = 3
                              \/ Quad(n) = 2 /\ (n - 1) \in pads}
        stop == IF ends = {}
                THEN Len(kept) + 1
                ELSE CHOOSE n \in ends : \A m \in ends : n <= m
        data == SelectSeq(SubSeq(kept, 1, stop - 1), IsData)
    IN  IF ends = {} /\ Len(data) % 4 # 0
        THEN DecodeError
        ELSE [ok |-> TRUE, bytes |-> BytesOfData(data)]

\* decoding without restoring the stripped padding
_b64url_decode_Unpadded(raw) == a2b_base64(raw)

\* _b64url_decode: pad to a multiple of four, then urlsafe_b64decode;
\* ok = FALSE stands for TokenValidationError("token encoding is invalid")
_b64url_decode(raw) ==
    LET padlen == (4 - (Len(raw) % 4)) % 4
        pad == [k \in 1..padlen |-> PAD]
    IN  a2b_base64(raw \o pad)

----------------------------------------------------------------------------
(* Token gateway: claims and their serialization *)

\* the clock-skew tolerance of _validate_claim_times, in seconds
SkewTolerance == 10

\* ISO timestamp strings: datetime.isoformat() of an aware or of a naive
\* datetime at second t, and a string that is no timestamp
Aware(t) == [kind |-> "aware", t |-> t]

Naive(t) == [kind |-> "naive", t |-> t]

Garbage == [kind |-> "garbage", t |-> 0]

\* the TokenClaims dataclass
TokenClaims(token_id, request_id, transaction_id, decision_hash, pv_id, state_snapshot_hash, scope, issued_at, expires_at, one_time_use) ==
    [token_id |-> token_id,
     request_id |-> request_id,
     transaction_id |-> transaction_id,
     decision_hash |-> decision_hash,
     policy_version_id |-> pv_id,
     state_snapshot_hash |-> state_snapshot_hash,
     scope |-> scope,
     issued_at |-> issued_at,
     expires_at |-> expires_at,
     one_time_use |-> one_time_use]

\* TokenClaims.new called when datetime.now(timezone.utc) is wallTime
TokenClaims_new(token_id, request_id, transaction_id, decision_hash, pv_id, state_snapshot_hash, scope, ttl_seconds, wallTime) ==
    TokenClaims(token_id, request_id, transaction_id, decision_hash, pv_id,
                state_snapshot_hash, scope,
                Aware(wallTime), Aware(wallTime + ttl_seconds), TRUE)

\* the claim fields in the order sort_keys=True writes them
FieldOrder ==
    <<"decision_hash", "expires_at", "issued_at", "one_time_use",
      "policy_version_id", "request_id", "scope", "state_snapshot_hash",
      "token_id", "transaction_id">>

RequiredFields == {FieldOrder[k] : k \in 1..Len(FieldOrder)} \ {"one_time_use"}

\* the strings that occur in claims; a string is written as the byte of
\* its place in this table
StringTable ==
    <<"tok_1a2b3c4d5e6f", "req_001", "req_tampered", "txn_001",
      "sha256:decision123", "policy_v1", "sha256:snapshot123",
      "post_grant_expense", "post_invoice">>

StringByte(str) == CHOOSE k \in 1..Len(StringTable) : StringTable[k] = str

\* the serialized JSON text, one byte per JSON token: bytes 1..99 are
\* strings, 100..199 timestamp strings, 201..211 object keys, then the
\* literals true and false and the list brackets
TimestampByte(ts) ==
    CASE ts.kind = "aware" -> 110 + ts.t
      [] ts.kind = "naive" -> 160 + ts.t
      [] OTHER -> 100

KeyByte(field) == 200 + (CHOOSE k \in 1..Len(FieldOrder) : FieldOrder[k] = field)

\* an object key that is no field of TokenClaims
ExtraKeyByte == 211

TrueByte == 250

FalseByte == 251

ListOpenByte == 252

ListCloseByte == 253

ValueBytes(field, value) ==
    CASE field = "scope" ->
            <<ListOpenByte>> \o [k \in 1..Len(value) |-> StringByte(value[k])]
                \o <<ListCloseByte>>
      [] field \in {"issued_at", "expires_at"} -> <<TimestampByte(value)>>
      [] field = "one_time_use" -> <<IF value THEN TrueByte ELSE FalseByte>>
      [] OTHER -> <<StringByte(value)>>

RECURSIVE SerializeFrom(_, _)
SerializeFrom(c, k) ==
    IF k > Len(FieldOrder) THEN <<>>
    ELSE <<KeyByte(FieldOrder[k])>> \o ValueBytes(FieldOrder[k], c[FieldOrder[k]])
            \o SerializeFrom(c, k + 1)

\* json.dumps(asdict(claims), sort_keys=True, separators=(",", ":")).encode("utf-8")
_serialize_claims(c) == SerializeFrom(c, 1)

ByteTimestamp(b) ==
    IF b = 100 THEN Garbage
    ELSE IF b < 160 THEN Aware(b - 110) ELSE Naive(b - 160)

IsStringByte(b) == b \in 1..Len(StringTable)

\* the place of the first byte from n on that is not a string; 0 if none
RECURSIVE ListEnd(_, _)
ListEnd(b, n) ==
    IF n > Len(b) THEN 0
    ELSE IF IsStringByte(b[n]) THEN ListEnd(b, n + 1) ELSE n

LoadsError == [ok |-> FALSE, obj |-> <<>>]

\* json.loads(payload_bytes.decode("utf-8")): the object as a function from
\* its keys, or ok = FALSE for json.JSONDecodeError
RECURSIVE json_loads(_, _, _)
json_loads(b, n, obj) ==
    IF n > Len(b) THEN [ok |-> TRUE, obj |-> obj]
    ELSE IF b[n] = ExtraKeyByte
         THEN IF n + 1 <= Len(b) /\ IsStringByte(b[n + 1])
              THEN json_loads(b, n + 2, ("extra" :> StringTable[b[n + 1]]) @@ obj)
              ELSE LoadsError
    ELSE IF b[n] \notin 201..210 \/ n + 1 > Len(b) THEN LoadsError
    ELSE LET field == FieldOrder[b[n] - 200]
             v == b[n + 1]
         IN  IF field = "scope"
             THEN LET e == ListEnd(b, n + 2)
                  IN  IF v = ListOpenByte /\ e # 0 /\ b[e] = ListCloseByte
                      THEN json_loads(b, e + 1,
                               (field :> [k \in 1..(e - n - 2) |->
                                              StringTable[b[n + 1 + k]]]) @@ obj)
                      ELSE LoadsError
             ELSE IF field \in {"issued_at", "expires_at"}
             THEN IF v \in 100..199
                  THEN json_loads(b, n + 2, (field :> ByteTimestamp(v)) @@ obj)
                  ELSE LoadsError
             ELSE IF field = "one_time_use"
             THEN IF v \in {TrueByte, FalseByte}
                  THEN json_loads(b, n + 2, (field :> (v = TrueByte)) @@ obj)
                  ELSE LoadsError
             ELSE IF IsStringByte(v)
                  THEN json_loads(b, n + 2, (field :> StringTable[v]) @@ obj)
                  ELSE LoadsError

\* TokenClaims(**payload): TypeError (ok = FALSE) on a missing or an
\* unexpected keyword; one_time_use defaults to True
ClaimsFromPayload(obj) ==
    IF RequiredFields \subseteq DOMAIN obj /\ "extra" \notin DOMAIN obj
    THEN [ok |-> TRUE,
          claims |-> TokenClaims(obj.token_id, obj.request_id, obj.transaction_id,
                                 obj.decision_hash, obj.policy_version_id,
                                 obj.state_snapshot_hash, obj.scope, obj.issued_at,
                                 obj.expires_at,
                                 IF "one_time_use" \in DOMAIN obj
                                 THEN obj.one_time_use ELSE TRUE)]
    ELSE [ok |-> FALSE, claims |-> <<>>]

----------------------------------------------------------------------------
(* Token gateway: issue_token and validate_token *)

\* "<NUL>" stands for a trailing zero character
Secrets == {"", "dev-secret-123", "dev-secret-123<NUL>", "wrong-secret"}

\* the HMAC key a secret is: HMAC pads a short key with zero bytes to the
\* block size, so a secret and the same secret followed by zero characters
\* are one key
HmacKey(secret) ==
    CASE secret = "dev-secret-123" -> 1
      [] secret = "dev-secret-123<NUL>" -> 1
      [] secret = "wrong-secret" -> 2
      [] OTHER -> 0

\* a signature that does not cover the payload
_sign_KeyOnly(payload, secret) == <<HmacKey(secret)>>

\* _sign: HMAC-SHA256, collision-free; the digest determines key and message
_sign(payload, secret) == <<HmacKey(secret)>> \o payload

\* issue_token; a result with ok = FALSE stands for ValueError
issue_token(c, secret) ==
    IF secret = ""
    THEN [ok |-> FALSE, token |-> <<>>]
    ELSE LET payload_bytes == _serialize_claims(c)
             signature == _sign(payload_bytes, secret)
         IN  [ok |-> TRUE,
              token |-> _b64url_encode(payload_bytes) \o <<DOT>>
                            \o _b64url_encode(signature)]

Raised(exc, msg) == [status |-> "raised", exc |-> exc, msg |-> msg, claims |-> NoClaims]

Returned(c) == [status |-> "returned", exc |-> "", msg |-> "", claims |-> c]

\* datetime.fromisoformat succeeds on the string
Parseable(ts) == ts.kind # "garbage"

\* a token that is still good in the second it expires
_validate_claim_times_StrictExpiry(c, wallTime) ==
    IF ~Parseable(c.issued_at) \/ ~Parseable(c.expires_at)
    THEN "token timestamps are invalid"
    ELSE IF c.issued_at.kind = "naive" \/ c.expires_at.kind = "naive"
    THEN "token timestamps must be timezone-aware"
    ELSE IF c.expires_at.t < wallTime
    THEN "token has expired"
    ELSE IF c.issued_at.t > wallTime + SkewTolerance
    THEN "token issued_at cannot be in the far future"
    ELSE ""

\* _validate_claim_times when datetime.now(timezone.utc) is wallTime:
\* the message of the error raised, "" when none is
_validate_claim_times(c, wallTime) ==
    IF ~Parseable(c.issued_at) \/ ~Parseable(c.expires_at)
    THEN "token timestamps are invalid"
    ELSE IF c.issued_at.kind = "naive" \/ c.expires_at.kind = "naive"
    THEN "token timestamps must be timezone-aware"
    ELSE IF c.expires_at.t <= wallTime
    THEN "token has expired"
    ELSE IF c.issued_at.t > wallTime + SkewTolerance
    THEN "token issued_at cannot be in the far future"
    ELSE ""

\* the place of the first "." in the token; 0 if there is none
FirstDot(token) ==
    LET dots == {n \in 1..Len(token) : token[n] = DOT}
    IN  IF dots = {} THEN 0 ELSE CHOOSE n \in dots : \A m \in dots : n <= m

\* validate_token without the scope test of line 87
ValidateSigned_AnyScope(payload_bytes, required_scope, wallTime) ==
    LET payload == json_loads(payload_bytes, 1, <<>>)
    IN  IF ~payload.ok THEN Raised("JSONDecodeError", "")
        ELSE LET made == ClaimsFromPayload(payload.obj)
             IN  IF ~made.ok THEN Raised("TypeError", "")
                 ELSE LET times == _validate_claim_times(made.claims, wallTime)
                      IN  IF times # ""
                          THEN Raised("TokenValidationError", times)
                          ELSE Returned(made.claims)

\* lines 84-89 of validate_token, once the signature has been accepted
ValidateSigned(payload_bytes, required_scope, wallTime) ==
    LET payload == json_loads(payload_bytes, 1, <<>>)
    IN  IF ~payload.ok THEN Raised("JSONDecodeError", "")
        ELSE LET made == ClaimsFromPayload(payload.obj)
             IN  IF ~made.ok THEN Raised("TypeError", "")
                 ELSE LET times == _validate_claim_times(made.claims, wallTime)
                      IN  IF times # ""
                          THEN Raised("TokenValidationError", times)
                          ELSE IF \A k \in 1..Len(made.claims.scope) :
                                      made.claims.scope[k] # required_scope
                               THEN Raised("TokenValidationError",
                                           "required scope is missing")
                               ELSE Returned(made.claims)

\* validate_token testing the secret before the shape of the token
validate_token_SecretFirst(token, secret, required_scope, wallTime) ==
    IF secret = ""
    THEN Raised("TokenValidationError", "secret must not be empty")
    ELSE IF Len(token) = 0 \/ FirstDot(token) = 0
    THEN Raised("TokenValidationError", "token format is invalid")
    ELSE LET dot == FirstDot(token)
             encoded_payload == SubSeq(token, 1, dot - 1)
             encoded_signature == SubSeq(token, dot + 1, Len(token))
             payload_bytes == _b64url_decode(encoded_payload)
             supplied_signature == _b64url_decode(encoded_signature)
         IN  IF ~payload_bytes.ok \/ ~supplied_signature.ok
             THEN Raised("TokenValidationError", "token encoding is invalid")
             ELSE IF supplied_signature.bytes # _sign(payload_bytes.bytes, secret)
             THEN Raised("TokenValidationError", "token signature is invalid")
             ELSE ValidateSigned(payload_bytes.bytes, required_scope, wallTime)

\* validate_token called when datetime.now(timezone.utc) is wallTime
validate_token(token, secret, required_scope, wallTime) ==
    IF Len(token) = 0 \/ FirstDot(token) = 0
    THEN Raised("TokenValidationError", "token format is invalid")
    ELSE IF secret = ""
    THEN Raised("TokenValidationError", "secret must not be empty")
    ELSE LET dot == FirstDot(token)
             encoded_payload == SubSeq(token, 1, dot - 1)
             encoded_signature == SubSeq(token, dot + 1, Len(token))
             payload_bytes == _b64url_decode(encoded_payload)
             supplied_signature == _b64url_decode(encoded_signature)
         IN  IF ~payload_bytes.ok \/ ~supplied_signature.ok
             THEN Raised("TokenValidationError", "token encoding is invalid")
             ELSE IF supplied_signature.bytes # _sign(payload_bytes.bytes, secret)
             THEN Raised("TokenValidationError", "token signature is invalid")
             ELSE ValidateSigned(payload_bytes.bytes, required_scope, wallTime)

----------------------------------------------------------------------------
(* The token gateway as a state machine: one decision, one claims object,
   one token, any number of validations while the clock runs *)

MaxClock == 2

\* the count of accepted validations stops here
MaxAccepted == 2

\* an intent for each verdict, against BaseSnapshot on day 0
BaseIntent ==
    [transaction_id |-> "txn_001",
     grant_id |-> "GRANT-2026-001",
     amount |-> 2,
     object_code |-> "equipment",
     expense_date |-> 0,
     evidence_refs |-> <<"file_01">>,
     model_confidence |-> 85,
     risk_class |-> "low"]

TokenIntents ==
    {BaseIntent,
     [BaseIntent EXCEPT !.amount = 3],
     [BaseIntent EXCEPT !.object_code = "TRAVEL"]}

BaseSnapshot ==
    [snapshot_id |-> "snap_2026_02_20",
     snapshot_hash |-> "sha256:snapshot123",
     as_of_date |-> 0,
     grant_start_date |-> 0,
     grant_end_date |-> 1,
     budget_remaining |-> 4,
     allowed_object_codes |-> {"EQUIPMENT", "Supplies"},
     high_dollar_threshold |-> 3,
     max_snapshot_age_days |-> 1]

TtlValues == {-1, 0, 2}

Scopes == {"post_grant_expense", "post_invoice"}

\* timestamps and scopes of claims built without TokenClaims.new
IssuedAtChoices == {Aware(0), Aware(SkewTolerance + 2), Naive(0), Garbage}

ExpiresAtChoices == {Aware(1), Aware(SkewTolerance + 5), Naive(SkewTolerance + 5)}

ScopeChoices == {<<>>, <<"post_grant_expense", "post_invoice">>}

TokenInit ==
    /\ today = 0
    /\ intent = BaseIntent
    /\ snapshot = BaseSnapshot
    /\ policy_version_id = "policy_v1"
    /\ now = None
    /\ last = NoCall
    /\ prev = NoCall
    /\ clock = 0
    /\ claims = NoClaims
    /\ issued = NotIssued
    /\ presented = <<>>
    /\ outcome = NoOutcome
    /\ accepted = 0
    /\ intent_payload = NoPayload
    /\ validated = NotValidated

\* a second of the wall clock passes
Tick ==
    /\ clock < MaxClock
    /\ clock' = clock + 1
    /\ UNCHANGED decisionVars
    /\ UNCHANGED intentVars
    /\ UNCHANGED <<claims, issued, presented, outcome, accepted>>

\* Auditor.run on the intent for which a token is going to be requested
Decide ==
    /\ last.op = "none"
    /\ claims = NoClaims
    /\ \E i \in TokenIntents :
          LET result == Evaluate(i, snapshot, policy_version_id, now, today)
          IN  /\ intent' = i
              /\ last' = [op |-> "run",
                          day |-> today,
                          result |-> result,
                          decision |-> AuditorDecision(result, today)]
    /\ prev' = last
    /\ UNCHANGED <<today, snapshot, policy_version_id, now>>
    /\ UNCHANGED tokenVars
    /\ UNCHANGED intentVars

\* TokenClaims.new for the decision, with the scopes token_scope_for derives
NewClaims ==
    /\ last.op = "run"
    /\ claims = NoClaims
    /\ \E ttl \in TtlValues :
          claims' = TokenClaims_new("tok_1a2b3c4d5e6f", "req_001",
                                    intent.transaction_id, "sha256:decision123",
                                    policy_version_id, snapshot.snapshot_hash,
                                    token_scope_for(last.result), ttl, clock)
    /\ UNCHANGED decisionVars
    /\ UNCHANGED intentVars
    /\ UNCHANGED <<clock, issued, presented, outcome, accepted>>

\* TokenClaims(...) built field by field, as the expiry test does
ConstructClaims ==
    /\ last.op = "none"
    /\ claims = NoClaims
    /\ \E ia \in IssuedAtChoices, ea \in ExpiresAtChoices, sc \in ScopeChoices :
          claims' = TokenClaims("tok_1a2b3c4d5e6f", "req_001", "txn_001",
                                "sha256:decision123", "policy_v1",
                                "sha256:snapshot123", sc, ia, ea, TRUE)
    /\ UNCHANGED decisionVars
    /\ UNCHANGED intentVars
    /\ UNCHANGED <<clock, issued, presented, outcome, accepted>>

\* issue_token(claims, secret); the token is then what gets presented
IssueToken ==
    /\ claims # NoClaims
    /\ issued = NotIssued
    /\ \E secret \in {"", "dev-secret-123"} :
          LET r == issue_token(claims, secret)
          IN  IF r.ok
              THEN /\ issued' = [status |-> "issued",
                                 claims |-> claims,
                                 secret |-> secret,
                                 payload |-> _serialize_claims(claims),
                                 token |-> r.token]
                   /\ presented' = r.token
              ELSE /\ issued' = [status |-> "raised", exc |-> "ValueError"]
                   /\ UNCHANGED presented
    /\ UNCHANGED decisionVars
    /\ UNCHANGED intentVars
    /\ UNCHANGED <<clock, claims, outcome, accepted>>

\* the signature segment of the issued token
IssuedSignature == SubSeq(issued.token, FirstDot(issued.token) + 1, Len(issued.token))

\* claims an attacker would rather have
AlteredClaims(c) ==
    {[c EXCEPT !.request_id = "req_tampered"],
     [c EXCEPT !.expires_at = Aware(SkewTolerance + 5)],
     [c EXCEPT !.scope = <<"post_grant_expense", "post_invoice">>]} \ {c}

\* the holder of the token replaces the payload by the serialization of
\* other claims and keeps the signature, as the tamper test does
TamperClaims ==
    /\ issued.status = "issued"
    /\ presented = issued.token
    /\ \E c \in AlteredClaims(issued.claims) :
          presented' = _b64url_encode(_serialize_claims(c)) \o <<DOT>> \o IssuedSignature
    /\ UNCHANGED decisionVars
    /\ UNCHANGED intentVars
    /\ outcome' = NoOutcome
    /\ accepted' = 0
    /\ UNCHANGED <<clock, claims, issued>>

\* the bytes that get flipped: the first one, the value of expires_at
\* (the fourth byte: two keys and two values in) and the last one
FlipPositions(payload) == {1, 4, Len(payload)}

\* the holder of the token changes one byte of the payload
FlipByte ==
    /\ issued.status = "issued"
    /\ presented = issued.token
    /\ \E n \in FlipPositions(issued.payload) :
          presented' = _b64url_encode([issued.payload EXCEPT ![n] = (@ + 1) % 256])
                            \o <<DOT>> \o IssuedSignature
    /\ UNCHANGED decisionVars
    /\ UNCHANGED intentVars
    /\ outcome' = NoOutcome
    /\ accepted' = 0
    /\ UNCHANGED <<clock, claims, issued>>

\* token strings that are not one separator between two non-empty
\* segments, made of the issued one: the separator left out, four and one
\* separators added at the end, and either segment left empty
MalformedTokens(token) ==
    LET dot == FirstDot(token)
        encoded_payload == SubSeq(token, 1, dot - 1)
        encoded_signature == SubSeq(token, dot + 1, Len(token))
    IN  {encoded_payload \o encoded_signature,
         token \o <<DOT, DOT, DOT, DOT>>,
         token \o <<DOT>>,
         <<DOT>> \o encoded_signature,
         encoded_payload \o <<DOT>>}

\* the holder of the token presents one of these strings instead
PresentMalformed ==
    /\ issued.status = "issued"
    /\ presented = issued.token
    /\ presented' \in MalformedTokens(issued.token)
    /\ UNCHANGED decisionVars
    /\ UNCHANGED intentVars
    /\ outcome' = NoOutcome
    /\ accepted' = 0
    /\ UNCHANGED <<clock, claims, issued>>

\* payloads that are no claims record, made of a serialized one: cut off
\* inside the last value (not valid JSON), without its first field
\* (a missing claim) and with one more key (an extra claim)
NonClaimsPayloads(payload_bytes) ==
    {SubSeq(payload_bytes, 1, Len(payload_bytes) - 1),
     SubSeq(payload_bytes, 3, Len(payload_bytes)),
     payload_bytes \o <<ExtraKeyByte, StringByte("req_001")>>}

\* a holder of the secret signs such a payload the way issue_token signs
\* claims, and presents the result
SignPayload ==
    /\ issued.status = "issued"
    /\ presented = issued.token
    /\ \E payload_bytes \in NonClaimsPayloads(issued.payload) :
          presented' = _b64url_encode(payload_bytes) \o <<DOT>>
                          \o _b64url_encode(_sign(payload_bytes, issued.secret))
    /\ UNCHANGED decisionVars
    /\ UNCHANGED intentVars
    /\ outcome' = NoOutcome
    /\ accepted' = 0
    /\ UNCHANGED <<clock, claims, issued>>

\* a gateway that redeems: the token is gone once claims marked
\* one_time_use were returned for it
ValidateToken_SingleUse ==
    /\ \E secret \in Secrets, required_scope \in Scopes :
          LET result == validate_token(presented, secret, required_scope, clock)
          IN  /\ outcome' = [secret |-> secret, required_scope |-> required_scope]
                                @@ result
              /\ accepted' = IF result.status = "returned" /\ accepted < MaxAccepted
                             THEN accepted + 1 ELSE accepted
              /\ presented' = IF result.status = "returned" /\ result.claims.one_time_use
                              THEN <<>> ELSE presented
    /\ UNCHANGED decisionVars
    /\ UNCHANGED intentVars
    /\ UNCHANGED <<clock, claims, issued>>

\* validate_token(presented, secret, required_scope) at the current time
ValidateToken ==
    /\ \E secret \in Secrets, required_scope \in Scopes :
          LET result == validate_token(presented, secret, required_scope, clock)
          IN  /\ outcome' = [secret |-> secret, required_scope |-> required_scope]
                                @@ result
              /\ accepted' = IF result.status = "returned" /\ accepted < MaxAccepted
                             THEN accepted + 1 ELSE accepted
    /\ UNCHANGED decisionVars
    /\ UNCHANGED intentVars
    /\ UNCHANGED <<clock, claims, issued, presented>>

TokenNext ==
    \/ Tick
    \/ Decide
    \/ NewClaims
    \/ ConstructClaims
    \/ IssueToken
    \/ TamperClaims
    \/ FlipByte
    \/ PresentMalformed
    \/ SignPayload
    \/ ValidateToken

TokenSpec == TokenInit /\ [][TokenNext]_vars

----------------------------------------------------------------------------
(* Decisions on different requests: Auditor.run is called on one request
   and then on another one *)

\* requests that differ in the transaction, the grant, the amount and the
\* object code; the amounts 1 and 2 pass every rule, 5 exceeds the budget
DigestIntents ==
    [transaction_id : {"txn_001", "txn_002"},
     grant_id : {"GRANT-2026-001", "GRANT-2026-002"},
     amount : {1, 2, 5},
     object_code : {"equipment", "Supplies"},
     expense_date : {0},
     evidence_refs : {<<"file_01">>},
     model_confidence : {85},
     risk_class : {"low"}]

\* two snapshots with the same id and different hashes
DigestSnapshots ==
    [snapshot_id : {"snap_2026_02_20"},
     snapshot_hash : {"sha256:snapshot123", "sha256:snapshot456"},
     as_of_date : {0},
     grant_start_date : {0},
     grant_end_date : {1},
     budget_remaining : {4},
     allowed_object_codes : {{"EQUIPMENT", "Supplies"}},
     high_dollar_threshold : {3},
     max_snapshot_age_days : {1}]

DigestPolicyVersions == {"policy_v1", "policy_v2"}

\* the arguments of a call of run
RunArgs(i, s, pv, nowArg) ==
    [intent |-> i, snapshot |-> s, policy_version_id |-> pv, now |-> nowArg]

DigestInit ==
    /\ today = 0
    /\ intent \in DigestIntents
    /\ snapshot \in DigestSnapshots
    /\ policy_version_id \in DigestPolicyVersions
    /\ now \in {Some(d) : d \in Days}
    /\ last = NoCall
    /\ prev = NoCall
    /\ clock = 0
    /\ claims = NoClaims
    /\ issued = NotIssued
    /\ presented = <<>>
    /\ outcome = NoOutcome
    /\ accepted = 0
    /\ intent_payload = NoPayload
    /\ validated = NotValidated

\* Auditor(GrantsGovernanceModule()).run on the current request; the call
\* is remembered together with its arguments
RunRequest ==
    /\ LET evaluated == ModuleEvaluate(intent, snapshot, policy_version_id, now, today)
       IN  last' = [args |-> RunArgs(intent, snapshot, policy_version_id, now)]
                      @@ CallRecord("run", evaluated, AuditorRun(evaluated, today), today)
    /\ prev' = last
    /\ UNCHANGED <<today, intent, snapshot, policy_version_id, now>>
    /\ UNCHANGED tokenVars
    /\ UNCHANGED intentVars

\* after the first decision another request arrives
NextRequest ==
    /\ last.op = "run"
    /\ prev.op = "none"
    /\ last.args = RunArgs(intent, snapshot, policy_version_id, now)
    /\ intent' \in DigestIntents
    /\ snapshot' \in DigestSnapshots
    /\ policy_version_id' \in DigestPolicyVersions
    /\ now' \in {Some(d) : d \in Days}
    /\ UNCHANGED <<today, last, prev>>
    /\ UNCHANGED tokenVars
    /\ UNCHANGED intentVars

DigestNext == RunRequest \/ NextRequest

DigestSpec == DigestInit /\ [][DigestNext]_vars

----------------------------------------------------------------------------
(* intent_schema: raw payloads and validate_intent *)

\* Python values found in a payload
PyNone == [t |-> "none"]

PyBool(b) == [t |-> "bool", b |-> b]

\* a float that is a number; model_confidence is counted in hundredths
PyFloat(x) == [t |-> "float", nan |-> FALSE, val |-> x]

\* float("nan")
PyNaN == [t |-> "float", nan |-> TRUE, val |-> 0]

PyStr(s) == [t |-> "str", s |-> s]

PyList(items) == [t |-> "list", items |-> items]

\* a payload that is no dictionary
NotADict == [dict |-> FALSE]

\* marks a key that the dictionary does not have
Missing == [t |-> "missing"]

\* payload.get(field)
Get(p, field) == IF field \in DOMAIN p.fields THEN p.fields[field] ELSE PyNone

\* str.strip() on the strings in use
Strip(s) ==
    CASE s = "  " -> ""
      [] s = " LOW " -> "LOW"
      [] s = " file_01 " -> "file_01"
      [] OTHER -> s

\* str.lower() on the strings in use
Lower(s) ==
    CASE s = "LOW" -> "low"
      [] s = "Medium" -> "medium"
      [] OTHER -> s

\* comparisons of floats: every comparison with NaN is false
FloatLE(x, c) == ~x.nan /\ x.val <= c

FloatLT(x, c) == ~x.nan /\ x.val < c

FloatGT(x, c) == ~x.nan /\ x.val > c

ALLOWED_RISK_CLASSES == {"low", "medium", "high"}

\* raise IntentValidationError(msg); msg is the field named in an f-string
\* ("" when there is none) and the text
IntentValidationError(msg) ==
    [status |-> "raised", exc |-> "IntentValidationError", msg |-> msg]

\* float(value): a float is kept, a numeric string is parsed ("nan" is one),
\* other strings give ValueError, None and lists give TypeError
FloatOf(value) ==
    CASE value.t = "float" -> [ok |-> TRUE, value |-> value]
      [] value.t = "str" /\ value.s = "12" -> [ok |-> TRUE, value |-> PyFloat(12)]
      [] value.t = "str" /\ value.s = "nan" -> [ok |-> TRUE, value |-> PyNaN]
      [] value.t = "str" -> [ok |-> FALSE, exc |-> "ValueError"]
      [] OTHER -> [ok |-> FALSE, exc |-> "TypeError"]

\* date.fromisoformat(value), in days after 2026-02-15
fromisoformat(s) ==
    CASE s = "2026-02-15" -> [ok |-> TRUE, value |-> 0]
      [] s = "2026-02-20" -> [ok |-> TRUE, value |-> 5]
      [] OTHER -> [ok |-> FALSE, exc |-> "ValueError"]

_required_string(p, field) ==
    LET value == Get(p, field)
    IN  IF value.t # "str" \/ Strip(value.s) = ""
        THEN [ok |-> FALSE,
              error |-> IntentValidationError(<<field, " must be a non-empty string">>)]
        ELSE [ok |-> TRUE, value |-> Strip(value.s)]

_required_float(p, field) ==
    LET value == Get(p, field)
        number == FloatOf(value)
    IN  IF value.t = "bool"
        THEN [ok |-> FALSE,
              error |-> IntentValidationError(<<field, " must be a numeric value">>)]
        ELSE IF ~number.ok
        THEN [ok |-> FALSE,
              error |-> IntentValidationError(<<field, " must be a numeric value">>)]
        ELSE [ok |-> TRUE, value |-> number.value]

_required_date(p, field) ==
    LET value == _required_string(p, field)
    IN  IF ~value.ok
        THEN value
        ELSE IF ~fromisoformat(value.value).ok
        THEN [ok |-> FALSE,
              error |-> IntentValidationError(<<field, " must be in YYYY-MM-DD format">>)]
        ELSE [ok |-> TRUE, value |-> fromisoformat(value.value).value]

\* the string and date arguments of IntentObject(...), in the order in which
\* the call evaluates them
ConstructorFields ==
    <<"transaction_id", "grant_id", "org_unit", "currency", "object_code",
      "expense_date", "posting_date", "description", "rationale_summary">>

ConstructorArg(p, field) ==
    IF field \in {"expense_date", "posting_date"}
    THEN _required_date(p, field)
    ELSE _required_string(p, field)

\* evidence_refs after the filter: the stripped non-empty strings
FilterEvidence(items) ==
    LET kept == SelectSeq(items, LAMBDA x : x.t = "str" /\ Strip(x.s) # "")
    IN  [k \in 1..Len(kept) |-> Strip(kept[k].s)]

\* the return statement: the first argument that fails raises, otherwise
\* the IntentObject is built
BuildIntent(p, amount, model_confidence, risk_class, evidence_refs) ==
    LET bad == SelectSeq(ConstructorFields, LAMBDA f : ~ConstructorArg(p, f).ok)
        arg(f) == ConstructorArg(p, f).value
    IN  IF bad # <<>>
        THEN ConstructorArg(p, bad[1]).error
        ELSE [status |-> "returned",
              intent |->
                [transaction_id |-> arg("transaction_id"),
                 grant_id |-> arg("grant_id"),
                 org_unit |-> arg("org_unit"),
                 amount |-> amount,
                 currency |-> Upper(arg("currency")),
                 object_code |-> Upper(arg("object_code")),
                 expense_date |-> arg("expense_date"),
                 posting_date |-> arg("posting_date"),
                 description |-> arg("description"),
                 evidence_refs |-> evidence_refs,
                 model_confidence |-> model_confidence,
                 risk_class |-> risk_class,
                 rationale_summary |-> arg("rationale_summary")]]

\* validate_intent: what it raises or the IntentObject it returns
validate_intent(p) ==
    IF ~p.dict
    THEN IntentValidationError(<<"", "payload must be a dictionary">>)
    ELSE
    LET amount == _required_float(p, "amount")
        model_confidence == _required_float(p, "model_confidence")
        risk_class == _required_string(p, "risk_class")
        evidence_refs_raw == IF "evidence_refs" \in DOMAIN p.fields
                             THEN p.fields["evidence_refs"]
                             ELSE PyList(<<>>)
    IN  IF ~amount.ok THEN amount.error
        ELSE IF FloatLE(amount.value, 0)
        THEN IntentValidationError(<<"", "amount must be greater than 0">>)
        ELSE IF ~model_confidence.ok THEN model_confidence.error
        ELSE IF FloatLT(model_confidence.value, 0) \/ FloatGT(model_confidence.value, 100)
        THEN IntentValidationError(<<"", "model_confidence must be between 0 and 1">>)
        ELSE IF ~risk_class.ok THEN risk_class.error
        ELSE IF Lower(risk_class.value) \notin ALLOWED_RISK_CLASSES
        THEN IntentValidationError(<<"", "risk_class must be one of: high, low, medium">>)
        ELSE IF evidence_refs_raw.t # "list"
        THEN IntentValidationError(<<"", "evidence_refs must be a list of strings">>)
        ELSE IF FilterEvidence(evidence_refs_raw.items) = <<>>
        THEN IntentValidationError(<<"", "at least one evidence reference is required">>)
        ELSE BuildIntent(p, amount.value, model_confidence.value,
                         Lower(risk_class.value),
                         FilterEvidence(evidence_refs_raw.items))

\* the valid payload of the tests with six of its values replaced
PayloadOf(amount, model_confidence, risk_class, evidence_refs, expense_date, grant_id) ==
    LET full == [transaction_id |-> PyStr("txn_001"),
                 grant_id |-> grant_id,
                 org_unit |-> PyStr("HLS-ONC"),
                 amount |-> amount,
                 currency |-> PyStr("USD"),
                 object_code |-> PyStr("equipment"),
                 expense_date |-> expense_date,
                 posting_date |-> PyStr("2026-02-20"),
                 description |-> PyStr("PCR thermal cycler replacement"),
                 evidence_refs |-> evidence_refs,
                 model_confidence |-> model_confidence,
                 risk_class |-> risk_class,
                 rationale_summary |-> PyStr("Allowable under sponsor category and period.")]
        present == {k \in DOMAIN full : full[k] # Missing}
    IN  [dict |-> TRUE, fields |-> [k \in present |-> full[k]]]

AmountValues ==
    {PyFloat(5000), PyFloat(0), PyFloat(-100), PyNaN, PyBool(TRUE),
     PyStr("12"), PyStr("nan"), PyStr("abc"), Missing}

ConfidenceValues == {PyFloat(95), PyFloat(0), PyFloat(100), PyFloat(110), PyFloat(-10), PyNaN}

RiskClassValues == {PyStr("low"), PyStr(" LOW "), PyStr("critical"), Missing}

EvidenceValues ==
    {PyList(<<PyStr("file_01")>>), PyList(<<PyStr("  "), PyFloat(5), PyStr(" file_01 ")>>),
     PyList(<<>>), PyList(<<PyStr("  "), PyFloat(5)>>), PyStr("file_01"), Missing}

ExpenseDateValues == {PyStr("2026-02-15"), PyStr("15-02-2026")}

GrantIdValues == {PyStr("GRANT-2026-001"), PyStr("  "), Missing}

IntentPayloads ==
    {NotADict} \cup
    {PayloadOf(a, c, r, e, d, g) :
        a \in AmountValues, c \in ConfidenceValues, r \in RiskClassValues,
        e \in EvidenceValues, d \in ExpenseDateValues, g \in GrantIdValues}

IntentInit ==
    /\ today = 0
    /\ intent = BaseIntent
    /\ snapshot = BaseSnapshot
    /\ policy_version_id = "policy_v1"
    /\ now = None
    /\ last = NoCall
    /\ prev = NoCall
    /\ clock = 0
    /\ claims = NoClaims
    /\ issued = NotIssued
    /\ presented = <<>>
    /\ outcome = NoOutcome
    /\ accepted = 0
    /\ intent_payload \in IntentPayloads
    /\ validated = NotValidated

\* validate_intent(payload)
ValidateIntent ==
    /\ validated' = validate_intent(intent_payload)
    /\ UNCHANGED intent_payload
    /\ UNCHANGED decisionVars
    /\ UNCHANGED tokenVars

IntentNext == ValidateIntent

IntentSpec == IntentInit /\ [][IntentNext]_vars

----------------------------------------------------------------------------
(* Properties of the decision engine *)

\* the call returned a result
GaveResult(call) == call.op \in {"evaluate", "run"}

Called == GaveResult(last)

TwoRuns == prev.op = "run" /\ last.op = "run"

TwoEvaluations == prev.op = "evaluate" /\ last.op = "evaluate"

HasRule(findings, rule_id) == \E k \in 1..Len(findings) : findings[k].rule_id = rule_id

\* C1: two calls of Auditor.run with the same intent, snapshot, policy
\* version and evaluation date return the same decision_hash, whatever the
\* wall clock shows at each call.
C1_Determinism ==
    (TwoRuns /\ EvaluationDate(now, prev.day) = EvaluationDate(now, last.day))
        => prev.decision.decision_hash = last.decision.decision_hash

\* two runs with a supplied evaluation date on different days: the decisions
\* differ in evaluated_at only
C1_Witness ==
    /\ TwoRuns
    /\ now.some
    /\ prev.day # last.day
    /\ prev.decision.evaluated_at # last.decision.evaluated_at
    /\ prev.decision.decision_hash = last.decision.decision_hash
    /\ [prev.decision EXCEPT !.evaluated_at = last.decision.evaluated_at] = last.decision

\* C2: the pack does not read the wall clock: two evaluate calls with the
\* same arguments, an omitted evaluation date included, return the same
\* DecisionResult on any two calendar days.
C2_PackIgnoresWallClock ==
    TwoEvaluations => prev.result = last.result

\* C3: a finding of severity high makes the verdict REJECT with
\* requires_review false, whatever the routing conditions are.
C3_SeverityDominance ==
    (Called /\ \E k \in 1..Len(last.result.findings) :
                    last.result.findings[k].severity = "high")
        => /\ last.result.decision = "REJECT"
           /\ last.result.requires_review = FALSE

\* a rejection although all three routing conditions ask for a review
C3_Witness ==
    /\ Called
    /\ HasRule(last.result.findings, "R-BUDGET-002")
    /\ intent.amount >= snapshot.high_dollar_threshold
    /\ intent.risk_class = "high"
    /\ intent.model_confidence < 85
    /\ last.result.decision = "REJECT"

NoHigh(findings) == \A k \in 1..Len(findings) : findings[k].severity # "high"

\* C4: without a high finding the verdict is REQUIRE_REVIEW with
\* requires_review true exactly when amount >= high_dollar_threshold or the
\* risk class is medium or high or model_confidence < 0.85, and APPROVE with
\* requires_review false otherwise; the medium finding does not matter.
C4_Routing ==
    (Called /\ NoHigh(last.result.findings))
        => IF \/ intent.amount >= snapshot.high_dollar_threshold
              \/ intent.risk_class = "medium"
              \/ intent.risk_class = "high"
              \/ intent.model_confidence < 85
           THEN last.result.decision = "REQUIRE_REVIEW" /\ last.result.requires_review = TRUE
           ELSE last.result.decision = "APPROVE" /\ last.result.requires_review = FALSE

\* an amount equal to the threshold is the only reason for the review, and
\* the medium finding R-DOC-004 is present
C4_Witness ==
    /\ Called
    /\ intent.amount = snapshot.high_dollar_threshold
    /\ intent.risk_class = "low"
    /\ intent.model_confidence = 85
    /\ last.result.findings = RuleDoc004(intent)
    /\ Len(last.result.findings) = 1
    /\ last.result.decision = "REQUIRE_REVIEW"

\* the age of the snapshot at the last call, in whole days
LastAge == EvaluationDate(now, last.day) - snapshot.as_of_date

\* C5 as stated: R-SNAP-008 is emitted exactly when the age exceeds
\* max_snapshot_age_days, and a negative age never yields R-SNAP-008.
C5_FreshnessAsStated ==
    Called =>
        /\ HasRule(last.result.findings, "R-SNAP-008")
                <=> LastAge > snapshot.max_snapshot_age_days
        /\ LastAge < 0 => ~HasRule(last.result.findings, "R-SNAP-008")

\* C5, amended: R-SNAP-008 is emitted (and the verdict is REJECT) exactly
\* when the age exceeds max_snapshot_age_days; a negative age yields no
\* R-SNAP-008 when max_snapshot_age_days is not negative.
C5_Freshness ==
    Called =>
        /\ HasRule(last.result.findings, "R-SNAP-008")
                <=> LastAge > snapshot.max_snapshot_age_days
        /\ HasRule(last.result.findings, "R-SNAP-008") => last.result.decision = "REJECT"
        /\ (LastAge < 0 /\ snapshot.max_snapshot_age_days >= 0)
                => ~HasRule(last.result.findings, "R-SNAP-008")

\* the boundary: an age equal to the maximum passed, one day more failed
C5_Witness ==
    /\ GaveResult(prev) /\ Called
    /\ snapshot.max_snapshot_age_days = 1
    /\ EvaluationDate(now, prev.day) - snapshot.as_of_date = 1
    /\ ~HasRule(prev.result.findings, "R-SNAP-008")
    /\ LastAge = 2
    /\ HasRule(last.result.findings, "R-SNAP-008")

\* C6: the hash material has exactly seven keys, whose values are the final
\* verdict, the ordered findings with all five fields, the final
\* requires_review, the policy version, the snapshot's id and hash and the
\* intent's transaction id.
C6_HashMaterial ==
    Called =>
        LET r == last.result
            m == r.decision_hash_material
        IN  /\ DOMAIN m = {"decision", "violations", "requires_review",
                           "policy_version_id", "snapshot_id", "snapshot_hash",
                           "transaction_id"}
            /\ m.decision = r.decision
            /\ Len(m.violations) = Len(r.findings)
            /\ \A k \in 1..Len(r.findings) :
                    /\ DOMAIN m.violations[k] =
                            {"rule_id", "severity", "message", "actual_value",
                             "expected_condition"}
                    /\ \A f \in DOMAIN m.violations[k] :
                            m.violations[k][f] = r.findings[k][f]
            /\ m.requires_review = r.requires_review
            /\ m.policy_version_id = policy_version_id
            /\ m.policy_version_id = r.policy_version_id
            /\ m.snapshot_id = snapshot.snapshot_id
            /\ m.snapshot_id = r.state_snapshot_id
            /\ m.snapshot_hash = snapshot.snapshot_hash
            /\ m.transaction_id = intent.transaction_id

\* a rejection that forced requires_review back to false, with two findings
C6_Witness ==
    /\ Called
    /\ RoutingFlag(intent, snapshot)
    /\ last.result.decision = "REJECT"
    /\ Len(last.result.findings) >= 2
    /\ last.result.decision_hash_material.requires_review = FALSE

----------------------------------------------------------------------------
(* Properties of the token gateway *)

\* a step of validate_token with a new outcome: the other actions leave
\* outcome alone or forget it
Validated == outcome' # outcome /\ outcome'.status # "none"

\* the token presented is the one issue_token returned
Untouched == issued.status = "issued" /\ presented = issued.token

\* the claims were built by TokenClaims.new for the decision in `last`
BuiltByNew == last.op = "run" /\ claims # NoClaims

InList(x, list) == \E k \in 1..Len(list) : list[k] = x

\* issued_at - 10s <= t < expires_at, both being timezone-aware timestamps
InWindow(c, t) ==
    /\ c.issued_at.kind = "aware"
    /\ c.expires_at.kind = "aware"
    /\ c.issued_at.t <= t + 10
    /\ t < c.expires_at.t

\* the payload segment of the presented token, decoded
PresentedPayload == _b64url_decode(SubSeq(presented, 1, FirstDot(presented) - 1))

\* the signature segment of the presented token, decoded
PresentedSignature ==
    _b64url_decode(SubSeq(presented, FirstDot(presented) + 1, Len(presented)))

\* the presented token carries the HMAC of its payload under the secret
CorrectlySigned(secret) ==
    /\ secret # ""
    /\ FirstDot(presented) # 0
    /\ PresentedPayload.ok
    /\ PresentedSignature.ok
    /\ PresentedSignature.bytes = <<HmacKey(secret)>> \o PresentedPayload.bytes

\* C7: token_scope_for returns exactly <<post_grant_expense>> for APPROVE
\* and the empty list for REJECT and REQUIRE_REVIEW, so that no validation,
\* whatever scope it requires, returns claims when the scopes were derived
\* for a decision that is not APPROVE.
C7_ScopeDerivation ==
    /\ BuiltByNew =>
            claims.scope = IF last.result.decision = "APPROVE"
                           THEN <<"post_grant_expense">> ELSE <<>>
    /\ (BuiltByNew /\ last.result.decision \in {"REJECT", "REQUIRE_REVIEW"}
            /\ outcome.status # "none")
          => outcome.status = "raised"

\* the token for a REQUIRE_REVIEW decision, validated in its window with
\* the right secret, fails for want of the scope
C7_Witness ==
    /\ BuiltByNew
    /\ last.result.decision = "REQUIRE_REVIEW"
    /\ Untouched
    /\ outcome.status = "raised"
    /\ outcome.secret = issued.secret
    /\ outcome.required_scope = "post_grant_expense"
    /\ outcome.msg = "required scope is missing"

\* C8: a token validated untouched, with the secret it was issued with, for
\* a scope its claims contain and inside its validity window, returns claims
\* equal to the issued ones in every field.
C8_RoundTrip ==
    [][(/\ Validated
        /\ Untouched
        /\ outcome'.secret = issued.secret
        /\ InList(outcome'.required_scope, issued.claims.scope)
        /\ InWindow(issued.claims, clock))
       => /\ outcome'.status = "returned"
          /\ DOMAIN outcome'.claims = DOMAIN issued.claims
          /\ \A f \in DOMAIN issued.claims : outcome'.claims[f] = issued.claims[f]]_vars

\* claims with two scopes and an issued_at ten seconds ahead came back
C8_Witness ==
    /\ Untouched
    /\ outcome.status = "returned"
    /\ outcome.claims = issued.claims
    /\ outcome.required_scope = "post_invoice"
    /\ Len(issued.claims.scope) = 2
    /\ issued.claims.issued_at.t = clock + 10

\* the presented token has the issued signature and a payload that decodes
\* to bytes other than the signed ones
PayloadAltered ==
    /\ issued.status = "issued"
    /\ FirstDot(presented) # 0
    /\ PresentedSignature = _b64url_decode(IssuedSignature)
    /\ PresentedPayload.ok
    /\ PresentedPayload.bytes # issued.payload

NonPositiveTtl ==
    BuiltByNew /\ issued.claims.expires_at.t <= issued.claims.issued_at.t

PastExpiry ==
    issued.claims.expires_at.kind = "aware" /\ issued.claims.expires_at.t <= clock

ExpiredBefore == outcome.status = "raised" /\ outcome.msg = "token has expired"

\* C10 as stated: a correctly signed token fails with the expiry error when
\* its claims come from TokenClaims.new with ttl_seconds <= 0, when it is
\* validated at now >= expires_at, and when it failed so before.
C10_ExpiryAsStated ==
    [][(/\ Validated
        /\ Untouched
        /\ CorrectlySigned(outcome'.secret)
        /\ NonPositiveTtl \/ PastExpiry \/ ExpiredBefore)
       => /\ outcome'.status = "raised"
          /\ outcome'.msg = "token has expired"]_vars

\* C10, amended: the same, for tokens whose issued_at and expires_at are
\* both parseable timezone-aware timestamps.
C10_Expiry ==
    [][(/\ Validated
        /\ Untouched
        /\ CorrectlySigned(outcome'.secret)
        /\ issued.claims.issued_at.kind = "aware"
        /\ issued.claims.expires_at.kind = "aware"
        /\ NonPositiveTtl \/ PastExpiry \/ ExpiredBefore)
       => /\ outcome'.status = "raised"
          /\ outcome'.exc = "TokenValidationError"
          /\ outcome'.msg = "token has expired"]_vars

\* claims of TokenClaims.new with ttl_seconds = 0, expired in the very
\* second they were issued in
C10_Witness ==
    /\ ExpiredBefore
    /\ Untouched
    /\ BuiltByNew
    /\ issued.claims.expires_at = issued.claims.issued_at
    /\ issued.claims.issued_at.t = clock
    /\ CorrectlySigned(outcome.secret)

----------------------------------------------------------------------------
(* Acceptance, token shape and the order of the checks *)

\* the claims record a payload decodes to, if it does
DecodeClaims(payload_bytes) ==
    LET loaded == json_loads(payload_bytes, 1, <<>>)
    IN  IF loaded.ok THEN ClaimsFromPayload(loaded.obj) ELSE [ok |-> FALSE, claims |-> <<>>]

\* The four conditions of acceptance at time t, for the decoded segments
\* of a token, a secret and a required scope: whether they hold, and the
\* claims the payload decodes to when they do
AcceptanceOf(payload, signature, made, secret, required_scope, t) ==
    IF /\ secret # ""
       /\ payload.ok
       /\ signature.ok
       /\ signature.bytes = <<HmacKey(secret)>> \o payload.bytes
       /\ made.ok
       /\ InWindow(made.claims, t)
       /\ InList(required_scope, made.claims.scope)
    THEN [ok |-> TRUE, claims |-> made.claims]
    ELSE [ok |-> FALSE, claims |-> NoClaims]

AcceptanceDecoded(payload, signature, secret, required_scope, t) ==
    AcceptanceOf(payload, signature, DecodeClaims(payload.bytes),
                 secret, required_scope, t)

\* what they say of the presented token
Acceptance(secret, required_scope, t) ==
    IF FirstDot(presented) = 0
    THEN [ok |-> FALSE, claims |-> NoClaims]
    ELSE AcceptanceDecoded(
             _b64url_decode(SubSeq(presented, 1, FirstDot(presented) - 1)),
             _b64url_decode(SubSeq(presented, FirstDot(presented) + 1,
                                   Len(presented))),
             secret, required_scope, t)

\* C11: validate_token returns claims only if the signature is the HMAC of
\* the decoded payload under the supplied non-empty secret, expires_at is
\* strictly after now, issued_at is at most 10 seconds after now and
\* required_scope is in claims.scope; and a well-formed, correctly signed
\* token meeting these conditions is accepted and its claims are returned
\* unchanged.
C11_FailClosed ==
    [][Validated =>
         \E held \in {Acceptance(outcome'.secret, outcome'.required_scope, clock)} :
             /\ outcome'.status = "returned" => held.ok
             /\ held.ok => /\ outcome'.status = "returned"
                            /\ outcome'.claims = held.claims
                            /\ Untouched => outcome'.claims = issued.claims]_vars

\* a token issued exactly ten seconds ahead of the clock is accepted for
\* the first of its two scopes
C11_Witness ==
    /\ outcome.status = "returned"
    /\ outcome.required_scope = "post_grant_expense"
    /\ outcome.secret = "dev-secret-123"
    /\ Untouched
    /\ outcome.claims = issued.claims
    /\ Len(outcome.claims.scope) = 2
    /\ outcome.claims.issued_at.t = clock + SkewTolerance
    /\ outcome.claims.expires_at.t > clock

\* exactly one separator, between two non-empty segments
WellShaped(token) ==
    LET dots == {n \in 1..Len(token) : token[n] = DOT}
    IN  Cardinality(dots) = 1 /\ dots \cap {1, Len(token)} = {}

\* C12: validate_token fails with the malformed-token error for every
\* token string that is not exactly one separator between two non-empty
\* segments: no separator, two or more separators, an empty payload
\* segment or an empty signature segment.
C12_MalformedRejected ==
    [][(Validated /\ ~WellShaped(presented))
          => /\ outcome'.status = "raised"
             /\ outcome'.exc = "TokenValidationError"
             /\ outcome'.msg = "token format is invalid"]_vars

\* The checks of validate_token in the order of C13, each stated on its
\* own, for the separator place, the decoded segments and the claims the
\* payload decodes to: the set of the checks that fail at time t.  A check
\* on the claims fails only when there are claims to look at.  0 stands
\* for a payload that is signed as the secret requires and is no claims
\* record.
FailedChecksOf(dot, payload, signature, made, secret, required_scope, t) ==
    LET signed == /\ dot # 0
                  /\ payload.ok
                  /\ signature.ok
                  /\ signature.bytes = <<HmacKey(secret)>> \o payload.bytes
        parses == /\ made.ok
                  /\ made.claims.issued_at.kind # "garbage"
                  /\ made.claims.expires_at.kind # "garbage"
        aware == /\ parses
                 /\ made.claims.issued_at.kind = "aware"
                 /\ made.claims.expires_at.kind = "aware"
    IN  {k \in 0..9 :
           CASE k = 0 -> secret # "" /\ signed /\ ~made.ok
             [] k = 1 -> Len(presented) = 0 \/ dot = 0
             [] k = 2 -> secret = ""
             [] k = 3 -> dot # 0 /\ (~payload.ok \/ ~signature.ok)
             [] k = 4 -> dot # 0 /\ payload.ok /\ signature.ok /\ ~signed
             [] k = 5 -> made.ok /\ ~parses
             [] k = 6 -> parses /\ ~aware
             [] k = 7 -> aware /\ made.claims.expires_at.t <= t
             [] k = 8 -> aware /\ made.claims.issued_at.t > t + 10
             [] OTHER -> made.ok /\ ~InList(required_scope, made.claims.scope)}

FailedDecoded(dot, payload, signature, secret, required_scope, t) ==
    FailedChecksOf(dot, payload, signature, DecodeClaims(payload.bytes),
                   secret, required_scope, t)

\* the checks the presented token fails
FailedChecks(secret, required_scope, t) ==
    FailedDecoded(FirstDot(presented),
                  _b64url_decode(SubSeq(presented, 1, FirstDot(presented) - 1)),
                  _b64url_decode(SubSeq(presented, FirstDot(presented) + 1,
                                        Len(presented))),
                  secret, required_scope, t)

\* the error of each check
CheckMessage ==
    <<"token format is invalid",
      "secret must not be empty",
      "token encoding is invalid",
      "token signature is invalid",
      "token timestamps are invalid",
      "token timestamps must be timezone-aware",
      "token has expired",
      "token issued_at cannot be in the far future",
      "required scope is missing">>

\* the result reports the first of the failed checks
ReportsFirst(failed, result) ==
    IF failed = {}
    THEN result.status = "returned"
    ELSE /\ result.status = "raised"
         /\ result.exc = "TokenValidationError"
         /\ result.msg = CheckMessage[CHOOSE k \in failed : \A j \in failed : k <= j]

\* C13: validate_token checks token shape, non-empty secret, base64url
\* encoding, signature, timestamp well-formedness, expiry, issued in the
\* future and scope in this order and reports the error of the first check
\* that fails (for a payload that, where the signature is accepted, is a
\* claims record); it returns claims when none fails.
C13_CheckOrder ==
    [][Validated =>
         \E failed \in {FailedChecks(outcome'.secret, outcome'.required_scope, clock)} :
             0 \in failed \/ ReportsFirst(failed, outcome')]_vars

\* an untouched token that is expired and has no scope at all, validated
\* with the issuing secret: expiry is reported, not the missing scope
C13_Witness ==
    /\ outcome.status = "raised"
    /\ outcome.msg = "token has expired"
    /\ Untouched
    /\ outcome.secret = issued.secret
    /\ issued.claims.scope = <<>>
    /\ issued.claims.issued_at.kind = "aware"
    /\ issued.claims.expires_at.kind = "aware"
    /\ issued.claims.expires_at.t <= clock
    /\ FailedChecks(outcome.secret, outcome.required_scope, clock) = {7, 9}

----------------------------------------------------------------------------
(* Redemption and error kinds *)

\* a step of validate_token, also one that repeats the outcome
ValidationStep ==
    /\ outcome'.status # "none"
    /\ outcome' # outcome \/ accepted' # accepted

\* C17: validate_token changes nothing, and a validation of the same token
\* with the same secret and scope as an earlier successful one, made while
\* issued_at - 10s <= now < expires_at, succeeds and returns the same
\* claims however many calls succeeded before, one_time_use being true.
C17_NoRedemptionState ==
    [][ValidationStep =>
         /\ UNCHANGED <<clock, claims, issued, presented>>
         /\ (/\ Untouched
             /\ accepted >= 1
             /\ outcome.status = "returned"
             /\ outcome.claims.one_time_use
             /\ outcome'.secret = outcome.secret
             /\ outcome'.required_scope = outcome.required_scope
             /\ InWindow(issued.claims, clock))
            => /\ outcome'.status = "returned"
               /\ outcome'.claims = outcome.claims
               /\ accepted' = IF accepted < MaxAccepted
                              THEN accepted + 1 ELSE accepted]_vars

\* the token of a decision was accepted twice, the second time a second
\* after the first, and says it is for one use
C17_Witness ==
    /\ accepted = 2
    /\ outcome.status = "returned"
    /\ Untouched
    /\ BuiltByNew
    /\ outcome.claims = issued.claims
    /\ outcome.claims.one_time_use
    /\ clock = issued.claims.issued_at.t + 1

\* C18: every failed verification in validate_token is reported as
\* TokenValidationError and never as another error kind, also for a
\* correctly signed payload that does not decode to a claims record or
\* whose timestamps are not parseable timezone-qualified strings.
C18_OnlyValidationErrors ==
    outcome.status = "raised" => outcome.exc = "TokenValidationError"

----------------------------------------------------------------------------
(* Findings, orchestration, the two packs and the digest *)

RuleOrder ==
    <<"R-PERIOD-001", "R-BUDGET-002", "R-ALLOW-003", "R-DOC-004", "R-SNAP-008">>

\* the condition of the k-th rule is violated by the inputs of a call made
\* on the given day
RuleViolated(k, i, s, evaluation_date) ==
    CASE k = 1 -> i.expense_date < s.grant_start_date \/ i.expense_date > s.grant_end_date
      [] k = 2 -> i.amount > s.budget_remaining
      [] k = 3 -> \A code \in s.allowed_object_codes : Upper(code) # Upper(i.object_code)
      [] k = 4 -> i.evidence_refs = <<>>
      [] OTHER -> evaluation_date - s.as_of_date > s.max_snapshot_age_days

\* the place of a rule id in RuleOrder; 0 if it is not there
RulePlace(rule_id) ==
    IF \E k \in 1..Len(RuleOrder) : RuleOrder[k] = rule_id
    THEN CHOOSE k \in 1..Len(RuleOrder) : RuleOrder[k] = rule_id
    ELSE 0

\* C15: the findings of an evaluation are in the order R-PERIOD-001,
\* R-BUDGET-002, R-ALLOW-003, R-DOC-004, R-SNAP-008: each rule id appears
\* at most once, exactly when its own condition is violated, and never
\* before a rule earlier in the order.
C15_FindingsOrder ==
    Called =>
      /\ \A k \in 1..Len(last.result.findings) :
             RulePlace(last.result.findings[k].rule_id) # 0
      /\ \A j, k \in 1..Len(last.result.findings) :
             j < k => RulePlace(last.result.findings[j].rule_id)
                        < RulePlace(last.result.findings[k].rule_id)
      /\ \A r \in 1..Len(RuleOrder) :
             HasRule(last.result.findings, RuleOrder[r])
               <=> RuleViolated(r, intent, snapshot, EvaluationDate(now, last.day))

\* all five rules fired and are reported in the fixed order
C15_Witness ==
    /\ Called
    /\ Len(last.result.findings) = 5
    /\ \A k \in 1..5 : last.result.findings[k].rule_id = RuleOrder[k]
    /\ intent.risk_class = "high"

\* the call ended with an error inside Auditor.run
RaisedInRun(call) == call.op = "raised" /\ call.by = "run"

\* the decision carries the result and nothing else (evaluated_at aside)
CarriesResult(decision, result) ==
    /\ decision.decision = result.decision
    /\ decision.requires_review = result.requires_review
    /\ decision.policy_version_id = result.policy_version_id
    /\ decision.state_snapshot_id = result.state_snapshot_id
    /\ Len(decision.violations) = Len(result.findings)
    /\ \A k \in 1..Len(result.findings) :
          /\ DOMAIN decision.violations[k] = DOMAIN result.findings[k]
          /\ \A f \in DOMAIN result.findings[k] :
                decision.violations[k][f] = result.findings[k][f]
    /\ decision.decision_hash = Sha256Hex(JsonDumps(result.decision_hash_material))

\* C16: the decision of Auditor.run has the module's verdict, review flag,
\* policy version and snapshot id, the findings copied field by field in
\* order, and the digest of that result's hash material; an error of the
\* module leaves run unchanged and no decision is produced; and
\* evaluate_grant_intent gives what run gives on the same inputs.
C16_RunAddsNothing ==
    /\ last.op = "run" =>
          /\ CarriesResult(last.decision, last.result)
          /\ last.result = Evaluate(intent, snapshot, policy_version_id, now, last.day)
          /\ \A entry \in RunEntries :
                EntryRun(entry, intent, snapshot, policy_version_id, now, last.day)
                    = [status |-> "returned", decision |-> last.decision]
    /\ RaisedInRun(last) =>
          /\ EvaluateRaises(snapshot)
          /\ last.error = AttributeError
          /\ "decision" \notin DOMAIN last
          /\ \A entry \in RunEntries :
                EntryRun(entry, intent, snapshot, policy_version_id, now, last.day)
                    = [status |-> "raised", error |-> last.error]
    /\ EvaluateRaises(snapshot) => ~GaveResult(last)

\* a rejection with two violations, the same through both entries
C16_Witness ==
    /\ last.op = "run"
    /\ last.decision.decision = "REJECT"
    /\ Len(last.decision.violations) = 2
    /\ last.decision.violations[1].rule_id = "R-PERIOD-001"
    /\ last.decision.violations[2].rule_id = "R-SNAP-008"
    /\ evaluate_grant_intent(intent, snapshot, policy_version_id, now, last.day).decision
            = last.decision

\* the module raised and the error left run as it was
C16_ErrorWitness ==
    /\ RaisedInRun(last)
    /\ last.error = AttributeError

\* C19: auditor.GrantsGovernanceModule and
\* grants_governance.GrantsGovernanceModule are equivalent: on the same
\* intent, snapshot, policy version and evaluation date both return the same
\* verdict, findings, requires_review, identifiers and hash material (or
\* raise the same error), and both give the same token scopes.
C19_PacksEquivalent ==
    /\ last.op = "evaluate" =>
          /\ \A pack \in Packs :
                LET evaluated == PackEvaluate(pack, intent, snapshot, policy_version_id,
                                              now, last.day)
                IN  /\ evaluated.status = "returned"
                    /\ evaluated.result = last.result
          /\ gg_token_scope_for(last.result) = token_scope_for(last.result)
    /\ (last.op = "raised" /\ last.by = "evaluate") =>
          \A pack \in Packs :
             PackEvaluate(pack, intent, snapshot, policy_version_id, now, last.day)
                = [status |-> "raised", error |-> last.error]

\* an evaluation at the boundaries of the budget and the threshold rule:
\* the amount equals the remaining budget and the threshold, and the
\* documentation finding is the only one
C19_Witness ==
    /\ last.op = "evaluate"
    /\ intent.amount = snapshot.budget_remaining
    /\ last.result.findings = RuleDoc004(intent)
    /\ Len(last.result.findings) = 1
    /\ last.result.decision \in {"REQUIRE_REVIEW", "APPROVE"}
    /\ token_scope_for(last.result) = gg_token_scope_for(last.result)

\* two decisions of Auditor.run, each remembered with its arguments
TwoDecisions == prev.op = "run" /\ last.op = "run"

\* the seven values the material is made of
BoundValues(call) ==
    <<call.result.decision,
      call.result.findings,
      call.result.requires_review,
      call.args.policy_version_id,
      call.args.snapshot.snapshot_id,
      call.args.snapshot.snapshot_hash,
      call.args.intent.transaction_id>>

\* transaction id, policy version and snapshot of a call
BoundInputs(call) ==
    <<call.args.intent.transaction_id,
      call.args.policy_version_id,
      call.args.snapshot.snapshot_id,
      call.args.snapshot.snapshot_hash>>

ApprovedClean(call) ==
    call.result.decision = "APPROVE" /\ call.result.findings = <<>>

\* C20: two evaluations have equal hash material exactly when verdict,
\* ordered findings, requires_review, policy version, snapshot id, snapshot
\* hash and transaction id are all equal; the material and the digest differ
\* whenever the transaction id, the policy version or the snapshot hash
\* differs; and two APPROVE decisions without findings for the same
\* transaction, policy version and snapshot carry the same digest, whatever
\* their amount, grant id, object code and evaluation date.
C20_DigestBinding ==
    TwoDecisions =>
        LET m1 == prev.result.decision_hash_material
            m2 == last.result.decision_hash_material
        IN  /\ (m1 = m2) <=> (BoundValues(prev) = BoundValues(last))
            /\ (prev.decision.decision_hash = last.decision.decision_hash) <=> (m1 = m2)
            /\ BoundInputs(prev) # BoundInputs(last) =>
                  /\ m1 # m2
                  /\ prev.decision.decision_hash # last.decision.decision_hash
            /\ (ApprovedClean(prev) /\ ApprovedClean(last)
                    /\ BoundInputs(prev) = BoundInputs(last))
                  => prev.decision.decision_hash = last.decision.decision_hash

\* two approvals without findings for the same transaction, policy version
\* and snapshot whose amount, grant id, object code and evaluation date all
\* differ, with one digest
C20_Witness ==
    /\ TwoDecisions
    /\ ApprovedClean(prev) /\ ApprovedClean(last)
    /\ BoundInputs(prev) = BoundInputs(last)
    /\ prev.args.intent.amount # last.args.intent.amount
    /\ prev.args.intent.grant_id # last.args.intent.grant_id
    /\ prev.args.intent.object_code # last.args.intent.object_code
    /\ prev.args.now # last.args.now
    /\ prev.decision.decision_hash = last.decision.decision_hash

----------------------------------------------------------------------------
(* Validated intents *)

\* the payload breaks one of the conditions an intent has to meet
ViolatesContract(p) ==
    \/ ~p.dict
    \/ Get(p, "amount").t = "bool"
    \/ ~FloatOf(Get(p, "amount")).ok
    \/ ~(~FloatOf(Get(p, "amount")).value.nan /\ FloatOf(Get(p, "amount")).value.val > 0)
    \/ ~FloatOf(Get(p, "model_confidence")).ok
    \/ ~(/\ ~FloatOf(Get(p, "model_confidence")).value.nan
         /\ FloatOf(Get(p, "model_confidence")).value.val >= 0
         /\ FloatOf(Get(p, "model_confidence")).value.val <= 100)
    \/ ~_required_string(p, "risk_class").ok
    \/ Lower(_required_string(p, "risk_class").value) \notin {"low", "medium", "high"}
    \/ Get(p, "evidence_refs").t # "list"
    \/ FilterEvidence(Get(p, "evidence_refs").items) = <<>>
    \/ \E f \in {"transaction_id", "grant_id", "org_unit", "currency", "object_code",
                 "description", "rationale_summary"} : ~_required_string(p, f).ok
    \/ \E f \in {"expense_date", "posting_date"} : ~_required_date(p, f).ok

\* C14: every IntentObject returned by validate_intent has amount > 0,
\* 0 <= model_confidence <= 1, a risk class of low, medium or high, a
\* non-empty evidence_refs list and parsed dates, so R-DOC-004 does not fire
\* for it; a payload that breaks one of these raises IntentValidationError.
C14_FullyValidated ==
    /\ validated.status = "returned" =>
          LET i == validated.intent
          IN  /\ ~i.amount.nan /\ i.amount.val > 0
              /\ ~i.model_confidence.nan
              /\ i.model_confidence.val >= 0 /\ i.model_confidence.val <= 100
              /\ i.risk_class \in {"low", "medium", "high"}
              /\ Len(i.evidence_refs) > 0
              /\ i.expense_date \in 0..5 /\ i.posting_date \in 0..5
              /\ RuleDoc004(i) = <<>>
    /\ (validated.status # "none" /\ ViolatesContract(intent_payload)) =>
          /\ validated.status = "raised"
          /\ validated.exc = "IntentValidationError"

\* what holds of the code: NaN aside, the contract is enforced, and the
\* evidence list of a returned intent is never empty
IntentContractButNaN ==
    /\ validated.status = "returned" =>
          LET i == validated.intent
          IN  /\ i.amount.nan \/ i.amount.val > 0
              /\ i.model_confidence.nan
                    \/ (i.model_confidence.val >= 0 /\ i.model_confidence.val <= 100)
              /\ i.risk_class \in {"low", "medium", "high"}
              /\ Len(i.evidence_refs) > 0
              /\ i.expense_date \in 0..5 /\ i.posting_date \in 0..5
              /\ RuleDoc004(i) = <<>>
    /\ validated.status = "raised" =>
          /\ validated.exc = "IntentValidationError"
          /\ ViolatesContract(intent_payload)

\* an intent with a NaN amount was returned
ReturnedNaN == validated.status = "returned" /\ validated.intent.amount.nan

====
